---- MODULE Spec2Model ----
(***************************************************************************)
(* Model of atmega328p/arduino-uno-main.ino: the millis()-driven loop, the *)
(* button debouncer, the night-hours editor, the alarm evaluation and the  *)
(* LED / buzzer signalling.                                                *)
(*                                                                         *)
(* One action per call made by loop(); the variable pc is the position of  *)
(* loop().  The millisecond counter is advanced by Tick (the timer         *)
(* interrupt), which may run between any two calls.  Temperatures and      *)
(* humidities are kept in tenths of a unit (16.0 is 160).                  *)
(***************************************************************************)
EXTENDS Integers, Naturals, Sequences, FiniteSets, TLC

\* ---------------------------------------------------------------- constants
HIGH == TRUE
LOW == FALSE

DEBOUNCE_MS == 35
TOGGLE_MS == 200
MAIN_MS == 250
EDIT_BLINK_MS == 400
ALARM_BLINK_CRIT_MS == 250
ALARM_BLINK_WARN_MS == 500
CMD_MAX == 20
LDR_LIMIT == 50
TEMP_WARN_LOW == 160
TEMP_WARN_HIGH == 260
TEMP_CRIT_LOW == 120
TEMP_CRIT_HIGH == 300
HUM_WARN_LOW == 300
HUM_WARN_HIGH == 650
HUM_CRIT_LOW == 200
HUM_CRIT_HIGH == 750
TONE_CRIT == 2000
TONE_WARN == 1200
NO_TONE == 0

\* Width of the millisecond counter in the model (unsigned long on the AVR).
TimerBits == 16
TimerMod == 2 ^ TimerBits

\* Bounds of the model: how long a run lasts, per environment.
MaxTimeButtons == 150
MaxTimeEditor == 300
MaxEdgesEditor == 6
MaxEdgesButtons == 6
MaxRxEditor == 1
MaxTimeMode == 350
MaxEdgesMode == 3
MaxRxMode == 2
MaxTimeHours == 180
MaxEdgesHours == 4
MaxRxHours == 1
MaxTimeNight == 250
MaxTimeAlarm == 500
MaxTimeBase == 500
MaxRxBase == 2
MaxTimeSched == 2400
MaxTimeSignal == 700
MaxTimeChatter == 1000
MaxTimeCmd == 250
MaxTimePresses == 200
MaxTimeFeed == 1000
MaxTimeInterval == 250
MaxRxInterval == 2
MaxEdgesInterval == 2
MaxRxFeed == 1
MaxEdgesPresses == 4
MaxRxUnknown == 2
MaxRxOverlong == 2
MaxTimeRange == 300
MaxEdgesRange == 5
MaxRxRange == 1
LeadWrap == 600
MaxOverWrap == 500
MaxEdgesWrap == 3

\* ---------------------------------------------------------------- state
VARIABLES
  millis,          \* value returned by millis()
  pins,            \* levels on BTN_NIGHT, BTN_MODE, BTN_TOGGLE
  rxbuf,           \* characters waiting in the Serial receive buffer
  rxCount,         \* chunks of characters received so far
  edges,           \* changes of the pin levels so far
  elapsed,         \* true time since start (not wrapped), for stating claims
  pc,              \* next call of loop()
  mode, nightEdit, intervalMs,
  eveningStart, nightEnd, editStartH, editEndH,
  tempC, humP, ldr, nowHour,
  ledState, baseLedOn, manualLED, buzzState,
  warningState, criticalState,
  editBlinkOn, lastEditBlink,
  lastReadSend, lastReadMain,
  bMode, bNight, bTog,
  cmd,
  ledLastToggle, blinkOn,      \* statics of ledAlarmUpdate
  buzLastToggle, beepOn,       \* statics of buzzerPassive
  alarmBlink, lastAlarmBlink,  \* statics of drawOLED
  ledPin, buzzTone,            \* PIN_LED level, frequency on PIN_BUZZ (0: none)
  ev,              \* what the checkPress calls of the last handleButtons returned
  sample,          \* per button: last sampled level and the true time it last changed
  pressedAt,       \* per button: the true time of its last press event, -1 if none
  firedAt,         \* the true time of the last report, evaluation, LED and buzzer toggle
  sendCount, senseCount,       \* UART lines sent, sense evaluations made
  uartLine         \* settings and flags of the last line sendUART printed

vars == << millis, pins, rxbuf, rxCount, edges, elapsed, pc, mode, nightEdit, intervalMs,
           eveningStart, nightEnd, editStartH, editEndH,
           tempC, humP, ldr, nowHour,
           ledState, baseLedOn, manualLED, buzzState,
           warningState, criticalState,
           editBlinkOn, lastEditBlink, lastReadSend, lastReadMain,
           bMode, bNight, bTog, cmd,
           ledLastToggle, blinkOn, buzLastToggle, beepOn,
           alarmBlink, lastAlarmBlink, ledPin, buzzTone,
           ev, sample, pressedAt, firedAt, sendCount, senseCount, uartLine >>

\* Unsigned subtraction of two counter values.
\* The difference taken as a signed number.
USubSigned(a, b) == a - b

\* now - last in unsigned long arithmetic.
USub(a, b) == (a - b) % TimerMod

\* ---------------------------------------------------------------- helpers
wrapHourEarly(h) == IF h < 0 THEN 23 ELSE IF h >= 23 THEN 0 ELSE h

wrapHourLate(h) == IF h < 0 THEN 23 ELSE IF h > 24 THEN 0 ELSE h

wrapHour(h) == IF h < 0 THEN 23 ELSE IF h > 23 THEN 0 ELSE h

isEveningInclusive(start, end, h) ==
  IF start < end THEN (h >= start /\ h <= end)
                 ELSE (h >= start \/ h < end)

isEvening(start, end, h) ==
  IF start < end THEN (h >= start /\ h < end)
                 ELSE (h >= start \/ h < end)

\* ---------------------------------------------------------------- buttons
\* A Button is [stableState, lastReading, lastChangeMs]; reading is what
\* digitalRead returns, ms what millis() returns.  The result holds the
\* checkPress reporting a press at every poll that finds the button held.
checkPressHeld(b, reading, ms) ==
  LET b1 == IF reading # b.lastReading
              THEN [b EXCEPT !.lastChangeMs = ms, !.lastReading = reading]
              ELSE b
  IN  IF USub(ms, b1.lastChangeMs) > DEBOUNCE_MS
        THEN [b |-> [b1 EXCEPT !.stableState = reading], ret |-> (reading = LOW)]
        ELSE [b |-> b1, ret |-> FALSE]

\* button after the call and the returned flag.
checkPressAtWindow(b, reading, ms) ==
  LET b1 == IF reading # b.lastReading
              THEN [b EXCEPT !.lastChangeMs = ms, !.lastReading = reading]
              ELSE b
      promote == USub(ms, b1.lastChangeMs) >= DEBOUNCE_MS /\ reading # b1.stableState
      b2 == IF promote THEN [b1 EXCEPT !.stableState = reading] ELSE b1
  IN  [b |-> b2, ret |-> promote /\ b2.stableState = LOW]

checkPress(b, reading, ms) ==
  LET b1 == IF reading # b.lastReading
              THEN [b EXCEPT !.lastChangeMs = ms, !.lastReading = reading]
              ELSE b
      promote == USub(ms, b1.lastChangeMs) > DEBOUNCE_MS /\ reading # b1.stableState
      b2 == IF promote THEN [b1 EXCEPT !.stableState = reading] ELSE b1
  IN  [b |-> b2, ret |-> promote /\ b2.stableState = LOW]

\* The settings handleButtons works on, as one record.
Settings ==
  [mode |-> mode, manualLED |-> manualLED, nightEdit |-> nightEdit,
   eveningStart |-> eveningStart, nightEnd |-> nightEnd,
   editStartH |-> editStartH, editEndH |-> editEndH,
   editBlinkOn |-> editBlinkOn, lastEditBlink |-> lastEditBlink]

\* NIGHT pressed, the edit ending after its first stage.
onNightPressSkip(e, ms) ==
  IF e.nightEdit = "NIGHT_EDIT_OFF"
    THEN [e EXCEPT !.nightEdit = "NIGHT_EDIT_START",
                   !.editStartH = e.eveningStart, !.editEndH = e.nightEnd,
                   !.editBlinkOn = TRUE, !.lastEditBlink = ms]
    ELSE [e EXCEPT !.eveningStart = e.editStartH, !.nightEnd = e.editEndH,
                   !.nightEdit = "NIGHT_EDIT_OFF", !.editBlinkOn = TRUE]

\* NIGHT pressed, the edit starting from the default hours 20 and 6.
onNightPressDefaults(e, ms) ==
  IF e.nightEdit = "NIGHT_EDIT_OFF"
    THEN [e EXCEPT !.nightEdit = "NIGHT_EDIT_START",
                   !.editStartH = 20, !.editEndH = 6,
                   !.editBlinkOn = TRUE, !.lastEditBlink = ms]
    ELSE IF e.nightEdit = "NIGHT_EDIT_START"
      THEN [e EXCEPT !.nightEdit = "NIGHT_EDIT_END",
                     !.editBlinkOn = TRUE, !.lastEditBlink = ms]
      ELSE [e EXCEPT !.eveningStart = e.editStartH, !.nightEnd = e.editEndH,
                     !.nightEdit = "NIGHT_EDIT_OFF", !.editBlinkOn = TRUE]

\* NIGHT pressed, the last stage closing the editor without storing the draft.
onNightPressKeep(e, ms) ==
  IF e.nightEdit = "NIGHT_EDIT_OFF"
    THEN [e EXCEPT !.nightEdit = "NIGHT_EDIT_START",
                   !.editStartH = e.eveningStart, !.editEndH = e.nightEnd,
                   !.editBlinkOn = TRUE, !.lastEditBlink = ms]
    ELSE IF e.nightEdit = "NIGHT_EDIT_START"
      THEN [e EXCEPT !.nightEdit = "NIGHT_EDIT_END",
                     !.editBlinkOn = TRUE, !.lastEditBlink = ms]
      ELSE [e EXCEPT !.nightEdit = "NIGHT_EDIT_OFF", !.editBlinkOn = TRUE]

\* NIGHT pressed: next stage of the edit.
onNightPress(e, ms) ==
  IF e.nightEdit = "NIGHT_EDIT_OFF"
    THEN [e EXCEPT !.nightEdit = "NIGHT_EDIT_START",
                   !.editStartH = e.eveningStart, !.editEndH = e.nightEnd,
                   !.editBlinkOn = TRUE, !.lastEditBlink = ms]
    ELSE IF e.nightEdit = "NIGHT_EDIT_START"
      THEN [e EXCEPT !.nightEdit = "NIGHT_EDIT_END",
                     !.editBlinkOn = TRUE, !.lastEditBlink = ms]
      ELSE [e EXCEPT !.eveningStart = e.editStartH, !.nightEnd = e.editEndH,
                     !.nightEdit = "NIGHT_EDIT_OFF", !.editBlinkOn = TRUE]

\* MODE (d = -1) or TOGGLE (d = 1) pressed while editing.
onEditStep(e, d, ms) ==
  LET e1 == IF e.nightEdit = "NIGHT_EDIT_START"
              THEN [e EXCEPT !.editStartH = wrapHour(e.editStartH + d)]
              ELSE [e EXCEPT !.editEndH = wrapHour(e.editEndH + d)]
  IN  [e1 EXCEPT !.editBlinkOn = TRUE, !.lastEditBlink = ms]

\* MODE pressed outside editing.
onModePressKeep(e) ==
  [e EXCEPT !.mode = IF e.mode = "AUTO" THEN "MANUAL" ELSE "AUTO"]

onModePress(e) ==
  LET m == IF e.mode = "AUTO" THEN "MANUAL" ELSE "AUTO"
  IN  [e EXCEPT !.mode = m,
                !.manualLED = IF m = "MANUAL" THEN FALSE ELSE e.manualLED]

\* TOGGLE pressed outside editing.
onTogglePress(e) ==
  IF e.mode = "MANUAL" THEN [e EXCEPT !.manualLED = ~e.manualLED] ELSE e

\* The three polls of handleButtons: b the button, reading its pin level, ms
\* the time.  The result holds the settings and the button after the poll and
\* what checkPress returned.
pollNight(e, b, reading, ms) ==
  LET c == checkPress(b, reading, ms)
  IN  [e |-> IF c.ret THEN onNightPress(e, ms) ELSE e, b |-> c.b, ret |-> c.ret]

pollModeBoth(e, b, reading, ms) ==
  LET c == checkPress(b, reading, ms)
  IN  [e |-> IF ~c.ret THEN e
             ELSE IF e.nightEdit # "NIGHT_EDIT_OFF" THEN onModePress(onEditStep(e, -1, ms))
             ELSE onModePress(e),
       b |-> c.b, ret |-> c.ret]

pollMode(e, b, reading, ms) ==
  LET c == checkPress(b, reading, ms)
  IN  [e |-> IF ~c.ret THEN e
             ELSE IF e.nightEdit # "NIGHT_EDIT_OFF" THEN onEditStep(e, -1, ms)
             ELSE onModePress(e),
       b |-> c.b, ret |-> c.ret]

pollTog(e, b, reading, ms) ==
  LET c == checkPress(b, reading, ms)
  IN  [e |-> IF ~c.ret THEN e
             ELSE IF e.nightEdit # "NIGHT_EDIT_OFF" THEN onEditStep(e, 1, ms)
             ELSE onTogglePress(e),
       b |-> c.b, ret |-> c.ret]

\* The sampled level of a pin and the true time it last changed.
Sampled(s, reading, t) ==
  IF reading # s.level THEN [level |-> reading, since |-> t] ELSE s

\* ---------------------------------------------------------------- UART in
\* A String is a sequence of one-character strings.
IsSpace(c) == c \in {" ", "\t", "\r"}

RECURSIVE trimLeft(_)
trimLeft(s) == IF s # << >> /\ IsSpace(Head(s)) THEN trimLeft(Tail(s)) ELSE s

RECURSIVE trimRight(_)
trimRight(s) ==
  IF s # << >> /\ IsSpace(s[Len(s)]) THEN trimRight(SubSeq(s, 1, Len(s) - 1)) ELSE s

trim(s) == trimRight(trimLeft(s))

\* The settings readCmd works on, as one record.
CmdSettings ==
  [mode |-> mode, manualLED |-> manualLED, eveningStart |-> eveningStart,
   nightEnd |-> nightEnd, intervalMs |-> intervalMs]

\* The chain with I1 read as one second.
applyCmdI1(c, line) ==
  IF line = <<"M", "A">> THEN [c EXCEPT !.mode = "AUTO"]
  ELSE IF line = <<"M", "L">> THEN [c EXCEPT !.mode = "MANUAL", !.manualLED = FALSE]
  ELSE IF line = <<"L", "O">> THEN [c EXCEPT !.manualLED = TRUE]
  ELSE IF line = <<"L", "O", "F">> THEN [c EXCEPT !.manualLED = FALSE]
  ELSE IF line = <<"S", "N", "I">> THEN [c EXCEPT !.eveningStart = wrapHour(c.eveningStart + 1)]
  ELSE IF line = <<"S", "N", "D">> THEN [c EXCEPT !.eveningStart = wrapHour(c.eveningStart - 1)]
  ELSE IF line = <<"S", "I">> THEN [c EXCEPT !.nightEnd = wrapHour(c.nightEnd + 1)]
  ELSE IF line = <<"S", "D">> THEN [c EXCEPT !.nightEnd = wrapHour(c.nightEnd - 1)]
  ELSE IF line = <<"I">> THEN [c EXCEPT !.intervalMs = 1000]
  ELSE IF line = <<"I", "2">> THEN [c EXCEPT !.intervalMs = 2500]
  ELSE IF line = <<"I", "5">> THEN [c EXCEPT !.intervalMs = 5000]
  ELSE IF line = <<"I", "1">> THEN [c EXCEPT !.intervalMs = 1000]
  ELSE c

\* The if / else-if chain run on a complete line.
applyCmd(c, line) ==
  IF line = <<"M", "A">> THEN [c EXCEPT !.mode = "AUTO"]
  ELSE IF line = <<"M", "L">> THEN [c EXCEPT !.mode = "MANUAL", !.manualLED = FALSE]
  ELSE IF line = <<"L", "O">> THEN [c EXCEPT !.manualLED = TRUE]
  ELSE IF line = <<"L", "O", "F">> THEN [c EXCEPT !.manualLED = FALSE]
  ELSE IF line = <<"S", "N", "I">> THEN [c EXCEPT !.eveningStart = wrapHour(c.eveningStart + 1)]
  ELSE IF line = <<"S", "N", "D">> THEN [c EXCEPT !.eveningStart = wrapHour(c.eveningStart - 1)]
  ELSE IF line = <<"S", "I">> THEN [c EXCEPT !.nightEnd = wrapHour(c.nightEnd + 1)]
  ELSE IF line = <<"S", "D">> THEN [c EXCEPT !.nightEnd = wrapHour(c.nightEnd - 1)]
  ELSE IF line = <<"I">> THEN [c EXCEPT !.intervalMs = 1000]
  ELSE IF line = <<"I", "2">> THEN [c EXCEPT !.intervalMs = 2500]
  ELSE IF line = <<"I", "5">> THEN [c EXCEPT !.intervalMs = 5000]
  ELSE IF line = <<"I", "1">> THEN [c EXCEPT !.intervalMs = 10000]
  ELSE c

\* One character read from Serial; st is [c, cmd].
readChar(st, ch) ==
  IF ch = "\n" THEN [c |-> applyCmd(st.c, trim(st.cmd)), cmd |-> << >>]
  ELSE IF ch # "\r"
    THEN LET buf == Append(st.cmd, ch)
         IN  [st EXCEPT !.cmd = IF Len(buf) > CMD_MAX THEN << >> ELSE buf]
    ELSE st

\* ---------------------------------------------------------------- alarms
\* The flags with the low critical temperature bound inclusive.
alarmFlagsInclusive(t, h) ==
  LET warningTemp == (t < TEMP_WARN_LOW) \/ (t > TEMP_WARN_HIGH)
      criticalTemp == (t <= TEMP_CRIT_LOW) \/ (t > TEMP_CRIT_HIGH)
      warningHum == (h < HUM_WARN_LOW) \/ (h > HUM_WARN_HIGH)
      criticalHum == (h < HUM_CRIT_LOW) \/ (h > HUM_CRIT_HIGH)
  IN  [warning |-> warningTemp \/ warningHum, critical |-> criticalTemp \/ criticalHum]

\* The flags updateLogic computes from the readings; t and h in tenths.
alarmFlags(t, h) ==
  LET warningTemp == (t < TEMP_WARN_LOW) \/ (t > TEMP_WARN_HIGH)
      criticalTemp == (t < TEMP_CRIT_LOW) \/ (t > TEMP_CRIT_HIGH)
      warningHum == (h < HUM_WARN_LOW) \/ (h > HUM_WARN_HIGH)
      criticalHum == (h < HUM_CRIT_LOW) \/ (h > HUM_CRIT_HIGH)
  IN  [warning |-> warningTemp \/ warningHum, critical |-> criticalTemp \/ criticalHum]

\* The base LED decision, darkness lighting the LED in MANUAL mode too.
baseLedDark(m, manual, l, start, end, h) ==
  IF m = "AUTO" THEN (l < LDR_LIMIT) \/ isEvening(start, end, h)
                ELSE manual \/ (l < LDR_LIMIT)

\* The base LED decision of updateLogic.
baseLed(m, manual, l, start, end, h) ==
  IF m = "AUTO" THEN (l < LDR_LIMIT) \/ isEvening(start, end, h) ELSE manual

\* ledAlarmUpdate; s is [lastToggle, blinkOn, pin].
ledAlarmUpdateWarnFirst(s, warning, critical, baseOn, ms) ==
  IF warning
    THEN LET s1 == IF USub(ms, s.lastToggle) >= TOGGLE_MS
                     THEN [s EXCEPT !.lastToggle = ms, !.blinkOn = ~s.blinkOn]
                     ELSE s
         IN  [s1 EXCEPT !.pin = s1.blinkOn]
    ELSE IF critical THEN [s EXCEPT !.pin = HIGH]
    ELSE [s EXCEPT !.pin = baseOn]

ledAlarmUpdate(s, warning, critical, baseOn, ms) ==
  IF critical THEN [s EXCEPT !.pin = HIGH]
  ELSE IF warning
    THEN LET s1 == IF USub(ms, s.lastToggle) >= TOGGLE_MS
                     THEN [s EXCEPT !.lastToggle = ms, !.blinkOn = ~s.blinkOn]
                     ELSE s
         IN  [s1 EXCEPT !.pin = s1.blinkOn]
    ELSE [s EXCEPT !.pin = baseOn]

\* buzzerPassive beeping only when more than 200 ms have passed.
buzzerPassiveStrict(s, warning, critical, ms) ==
  IF critical THEN [s EXCEPT !.tone = TONE_CRIT]
  ELSE IF warning
    THEN IF USub(ms, s.lastToggle) > TOGGLE_MS
           THEN [s EXCEPT !.lastToggle = ms, !.beepOn = ~s.beepOn,
                          !.tone = IF ~s.beepOn THEN TONE_WARN ELSE NO_TONE]
           ELSE s
    ELSE [s EXCEPT !.tone = NO_TONE]

\* buzzerPassive with the critical tone latched once it sounds.
buzzerPassiveLatched(s, warning, critical, ms) ==
  IF critical \/ s.tone = TONE_CRIT THEN [s EXCEPT !.tone = TONE_CRIT]
  ELSE IF warning
    THEN IF USub(ms, s.lastToggle) >= TOGGLE_MS
           THEN [s EXCEPT !.lastToggle = ms, !.beepOn = ~s.beepOn,
                          !.tone = IF ~s.beepOn THEN TONE_WARN ELSE NO_TONE]
           ELSE s
    ELSE [s EXCEPT !.tone = NO_TONE]

\* buzzerPassive; s is [lastToggle, beepOn, tone].
buzzerPassive(s, warning, critical, ms) ==
  IF critical THEN [s EXCEPT !.tone = TONE_CRIT]
  ELSE IF warning
    THEN IF USub(ms, s.lastToggle) >= TOGGLE_MS
           THEN [s EXCEPT !.lastToggle = ms, !.beepOn = ~s.beepOn,
                          !.tone = IF ~s.beepOn THEN TONE_WARN ELSE NO_TONE]
           ELSE s
    ELSE [s EXCEPT !.tone = NO_TONE]

\* The state drawOLED keeps: d is [alarmBlink, lastAlarmBlink, editBlinkOn, lastEditBlink].
drawOLED(d, warning, critical, edit, ms) ==
  LET alarmBlinkInterval == IF critical THEN ALARM_BLINK_CRIT_MS ELSE ALARM_BLINK_WARN_MS
      d1 == IF (warning \/ critical) /\ USub(ms, d.lastAlarmBlink) >= alarmBlinkInterval
              THEN [d EXCEPT !.lastAlarmBlink = ms, !.alarmBlink = ~d.alarmBlink]
              ELSE d
  IN  IF edit # "NIGHT_EDIT_OFF"
        THEN IF USub(ms, d1.lastEditBlink) >= EDIT_BLINK_MS
               THEN [d1 EXCEPT !.lastEditBlink = ms, !.editBlinkOn = ~d1.editBlinkOn]
               ELSE d1
        ELSE [d1 EXCEPT !.editBlinkOn = TRUE]

\* ---------------------------------------------------------------- loop()
\* Variables grouped by the calls that write them.
envV == << pins, rxbuf, rxCount, edges >>
timeV == << millis, elapsed >>
cmdV == << intervalMs, cmd >>
modeV == << mode, manualLED >>
windowV == << eveningStart, nightEnd >>
editV == << nightEdit, editStartH, editEndH >>
blinkV == << editBlinkOn, lastEditBlink >>
ledV == << ledLastToggle, blinkOn, ledPin >>
buzV == << buzLastToggle, beepOn, buzzTone >>
senseV == << tempC, humP, ldr, nowHour, ledState, baseLedOn, buzzState,
             warningState, criticalState, alarmBlink, lastAlarmBlink,
             lastReadMain, senseCount >>
sendV == << lastReadSend, sendCount, uartLine >>

\* State after the globals' initialisers and setup(), the buttons released, with
\* the night window from start to end.
InitAt(start, end) ==
  /\ millis = 0 /\ elapsed = 0 /\ pc = "readCmd"
  /\ pins = [night |-> HIGH, mode |-> HIGH, tog |-> HIGH]
  /\ rxbuf = << >> /\ rxCount = 0 /\ edges = 0
  /\ mode = "AUTO" /\ nightEdit = "NIGHT_EDIT_OFF" /\ intervalMs = 1000
  /\ eveningStart = start /\ nightEnd = end /\ editStartH = 20 /\ editEndH = 6
  /\ tempC = 0 /\ humP = 0 /\ ldr = 0 /\ nowHour = 0
  /\ ledState = FALSE /\ baseLedOn = FALSE /\ manualLED = FALSE /\ buzzState = FALSE
  /\ warningState = FALSE /\ criticalState = FALSE
  /\ editBlinkOn = TRUE /\ lastEditBlink = 0
  /\ lastReadSend = 0 /\ lastReadMain = 0
  /\ bMode = [stableState |-> LOW, lastReading |-> LOW, lastChangeMs |-> 0]
  /\ bNight = [stableState |-> LOW, lastReading |-> LOW, lastChangeMs |-> 0]
  /\ bTog = [stableState |-> LOW, lastReading |-> LOW, lastChangeMs |-> 0]
  /\ cmd = << >>
  /\ ledLastToggle = 0 /\ blinkOn = FALSE
  /\ buzLastToggle = 0 /\ beepOn = FALSE
  /\ alarmBlink = FALSE /\ lastAlarmBlink = 0
  /\ ledPin = LOW /\ buzzTone = NO_TONE
  /\ ev = [night |-> FALSE, mode |-> FALSE, tog |-> FALSE]
  /\ pressedAt = [night |-> -1, mode |-> -1, tog |-> -1]
  /\ firedAt = [send |-> 0, sense |-> 0, led |-> 0, buzz |-> 0]
  /\ sample = [night |-> [level |-> LOW, since |-> 0],
               mode |-> [level |-> LOW, since |-> 0],
               tog |-> [level |-> LOW, since |-> 0]]
  /\ sendCount = 0 /\ senseCount = 0
  /\ uartLine = [led |-> FALSE, buzz |-> FALSE, mode |-> "AUTO", int |-> 1000,
                 nst |-> 20, nend |-> 6]

\* The window is from 20 to 6 at power-up.
Init == InitAt(20, 6)

\* The world around loop(): while loop() is at one of the calls of At the counter
\* advances by some d of D (up to a run of maxT ms), the pins take some levels of
\* Lv (changing at most maxEdges times in a run; with clean set, only once the
\* levels they had are the stable ones), and some characters of Rx arrive on the
\* UART (at most maxRx non-empty chunks in a run).
Debounced ==
  /\ bNight.stableState = pins.night
  /\ bMode.stableState = pins.mode
  /\ bTog.stableState = pins.tog

Tick(D, At, maxT, Lv, clean, maxEdges, Rx, maxRx) ==
  /\ pc \in At
  /\ \E d \in D :
       /\ elapsed + d <= maxT
       /\ millis' = (millis + d) % TimerMod
       /\ elapsed' = elapsed + d
  /\ \E lv \in Lv :
       /\ lv # pins => (edges < maxEdges /\ (clean => Debounced))
       /\ pins' = lv
       /\ edges' = IF lv # pins THEN edges + 1 ELSE edges
  /\ \E rx \in Rx :
       /\ rx # << >> => rxCount < maxRx
       /\ rxbuf' = rxbuf \o rx
       /\ rxCount' = IF rx # << >> THEN rxCount + 1 ELSE rxCount
  /\ UNCHANGED << pc, cmdV, modeV, windowV, editV, blinkV, bMode, bNight, bTog,
                  ev, sample, pressedAt, firedAt, ledV, buzV, senseV, sendV >>

\* 1) readCmd(): one turn of its while loop, reading one character.
ReadCharStep ==
  /\ pc = "readCmd"
  /\ rxbuf # << >>
  /\ LET r == readChar([c |-> CmdSettings, cmd |-> cmd], Head(rxbuf))
     IN  /\ mode' = r.c.mode
         /\ manualLED' = r.c.manualLED
         /\ eveningStart' = r.c.eveningStart
         /\ nightEnd' = r.c.nightEnd
         /\ intervalMs' = r.c.intervalMs
         /\ cmd' = r.cmd
  /\ rxbuf' = Tail(rxbuf)
  /\ UNCHANGED << pc, pins, rxCount, edges, timeV, editV, blinkV, bMode, bNight, bTog,
                  ev, sample, pressedAt, firedAt, ledV, buzV, senseV, sendV >>

\* 1) readCmd() returns: nothing is waiting on Serial.
ReadCmdDone ==
  /\ pc = "readCmd"
  /\ rxbuf = << >>
  /\ pc' = "nightButton"
  /\ UNCHANGED << envV, timeV, cmdV, modeV, windowV, editV, blinkV, bMode, bNight,
                  bTog, ev, sample, pressedAt, firedAt, ledV, buzV, senseV, sendV >>

\* readCmd() returning straight to the report when one is due.
TimedReadCmdDueFirst(D, maxT) ==
  /\ pc = "readCmd"
  /\ rxbuf = << >>
  /\ \E d \in D :
       /\ elapsed + d <= maxT
       /\ millis' = (millis + d) % TimerMod
       /\ elapsed' = elapsed + d
  /\ pc' = IF USub(millis', lastReadSend) >= intervalMs THEN "report" ELSE "nightButton"
  /\ UNCHANGED << envV, cmdV, modeV, windowV, editV, blinkV, bMode, bNight,
                  bTog, ev, sample, pressedAt, firedAt, ledV, buzV, senseV, sendV >>

\* 1) readCmd() with nothing to read, entered d ms after the previous iteration
\* of loop() entered it: the time an iteration takes.
TimedReadCmd(D, maxT) ==
  /\ pc = "readCmd"
  /\ rxbuf = << >>
  /\ \E d \in D :
       /\ elapsed + d <= maxT
       /\ millis' = (millis + d) % TimerMod
       /\ elapsed' = elapsed + d
  /\ pc' = "nightButton"
  /\ UNCHANGED << envV, cmdV, modeV, windowV, editV, blinkV, bMode, bNight,
                  bTog, ev, sample, pressedAt, firedAt, ledV, buzV, senseV, sendV >>

\* 1) handleButtons(): checkPress(bNight) and the stage of the edit.
NightButtonStep ==
  /\ pc = "nightButton"
  /\ LET r == pollNight(Settings, bNight, pins.night, millis)
     IN  /\ nightEdit' = r.e.nightEdit
         /\ eveningStart' = r.e.eveningStart
         /\ nightEnd' = r.e.nightEnd
         /\ editStartH' = r.e.editStartH
         /\ editEndH' = r.e.editEndH
         /\ editBlinkOn' = r.e.editBlinkOn
         /\ lastEditBlink' = r.e.lastEditBlink
         /\ mode' = r.e.mode
         /\ manualLED' = r.e.manualLED
         /\ bNight' = r.b
         /\ ev' = [night |-> r.ret, mode |-> FALSE, tog |-> FALSE]
  /\ sample' = [sample EXCEPT !.night = Sampled(@, pins.night, elapsed)]
  /\ pressedAt' = IF ev'.night THEN [pressedAt EXCEPT !.night = elapsed] ELSE pressedAt
  /\ pc' = "modeButton"
  /\ UNCHANGED << envV, timeV, cmdV, bMode, bTog, firedAt, ledV, buzV, senseV, sendV >>

\* 1) handleButtons(): checkPress(bMode), in the edit branch or the normal one.
ModeButtonStep ==
  /\ pc = "modeButton"
  /\ LET r == pollMode(Settings, bMode, pins.mode, millis)
     IN  /\ nightEdit' = r.e.nightEdit
         /\ eveningStart' = r.e.eveningStart
         /\ nightEnd' = r.e.nightEnd
         /\ editStartH' = r.e.editStartH
         /\ editEndH' = r.e.editEndH
         /\ editBlinkOn' = r.e.editBlinkOn
         /\ lastEditBlink' = r.e.lastEditBlink
         /\ mode' = r.e.mode
         /\ manualLED' = r.e.manualLED
         /\ bMode' = r.b
         /\ ev' = [ev EXCEPT !.mode = r.ret]
  /\ sample' = [sample EXCEPT !.mode = Sampled(@, pins.mode, elapsed)]
  /\ pressedAt' = IF ev'.mode THEN [pressedAt EXCEPT !.mode = elapsed] ELSE pressedAt
  /\ pc' = "togButton"
  /\ UNCHANGED << envV, timeV, cmdV, bNight, bTog, firedAt, ledV, buzV, senseV, sendV >>

\* 1) handleButtons(): checkPress(bTog), in the edit branch or the normal one.
TogButtonStep ==
  /\ pc = "togButton"
  /\ LET r == pollTog(Settings, bTog, pins.tog, millis)
     IN  /\ nightEdit' = r.e.nightEdit
         /\ eveningStart' = r.e.eveningStart
         /\ nightEnd' = r.e.nightEnd
         /\ editStartH' = r.e.editStartH
         /\ editEndH' = r.e.editEndH
         /\ editBlinkOn' = r.e.editBlinkOn
         /\ lastEditBlink' = r.e.lastEditBlink
         /\ mode' = r.e.mode
         /\ manualLED' = r.e.manualLED
         /\ bTog' = r.b
         /\ ev' = [ev EXCEPT !.tog = r.ret]
  /\ sample' = [sample EXCEPT !.tog = Sampled(@, pins.tog, elapsed)]
  /\ pressedAt' = IF ev'.tog THEN [pressedAt EXCEPT !.tog = elapsed] ELSE pressedAt
  /\ pc' = "ledAlarmUpdate"
  /\ UNCHANGED << envV, timeV, cmdV, bNight, bMode, firedAt, ledV, buzV, senseV, sendV >>

\* 2) ledAlarmUpdate(warningState, criticalState, baseLedOn).
LedStep ==
  /\ pc = "ledAlarmUpdate"
  /\ LET r == ledAlarmUpdate([lastToggle |-> ledLastToggle, blinkOn |-> blinkOn, pin |-> ledPin],
                             warningState, criticalState, baseLedOn, millis)
     IN  /\ ledLastToggle' = r.lastToggle
         /\ blinkOn' = r.blinkOn
         /\ ledPin' = r.pin
         /\ firedAt' = IF r.blinkOn # blinkOn THEN [firedAt EXCEPT !.led = elapsed] ELSE firedAt
  /\ pc' = "buzzerPassive"
  /\ UNCHANGED << envV, timeV, cmdV, modeV, windowV, editV, blinkV, bMode, bNight,
                  bTog, ev, sample, pressedAt, buzV, senseV, sendV >>

\* 2) buzzerPassive(warningState, criticalState).
BuzzStep ==
  /\ pc = "buzzerPassive"
  /\ LET r == buzzerPassive([lastToggle |-> buzLastToggle, beepOn |-> beepOn, tone |-> buzzTone],
                            warningState, criticalState, millis)
     IN  /\ buzLastToggle' = r.lastToggle
         /\ beepOn' = r.beepOn
         /\ buzzTone' = r.tone
         /\ firedAt' = IF r.beepOn # beepOn THEN [firedAt EXCEPT !.buzz = elapsed] ELSE firedAt
  /\ pc' = "report"
  /\ UNCHANGED << envV, timeV, cmdV, modeV, windowV, editV, blinkV, bMode, bNight,
                  bTog, ev, sample, pressedAt, ledV, senseV, sendV >>

\* A cadence due only after more than its interval.
dueLate(ms, last, interval) == USub(ms, last) > interval

\* Whether a cadence whose last firing was at last is due at time ms.
due(ms, last, interval) == USub(ms, last) >= interval

\* 3) the UART cadence: sendUART() every intervalMs.
ReportStep ==
  /\ pc = "report"
  /\ IF due(millis, lastReadSend, intervalMs)
       THEN /\ lastReadSend' = millis
            /\ sendCount' = sendCount + 1
            /\ uartLine' = [led |-> ledState, buzz |-> buzzState, mode |-> mode,
                            int |-> intervalMs, nst |-> eveningStart, nend |-> nightEnd]
            /\ firedAt' = [firedAt EXCEPT !.send = elapsed]
       ELSE UNCHANGED << sendV, firedAt >>
  /\ pc' = "sense"
  /\ UNCHANGED << envV, timeV, cmdV, modeV, windowV, editV, blinkV, bMode, bNight,
                  bTog, ev, sample, pressedAt, ledV, buzV, senseV >>

\* 4) the 250 ms cadence: readings (one of Sensors), updateLogic(), drawOLED().
SenseStep(Sensors) ==
  /\ pc = "sense"
  /\ IF due(millis, lastReadMain, MAIN_MS)
       THEN \E in \in Sensors :
              LET a == alarmFlags(in.t, in.h)
                  base == baseLed(mode, manualLED, in.ldr, eveningStart, nightEnd, in.hour)
                  d == drawOLED([alarmBlink |-> alarmBlink, lastAlarmBlink |-> lastAlarmBlink,
                                 editBlinkOn |-> editBlinkOn, lastEditBlink |-> lastEditBlink],
                                a.warning, a.critical, nightEdit, millis)
              IN  /\ lastReadMain' = millis
                  /\ ldr' = in.ldr /\ tempC' = in.t /\ humP' = in.h /\ nowHour' = in.hour
                  /\ warningState' = a.warning
                  /\ criticalState' = a.critical
                  /\ buzzState' = (a.warning \/ a.critical)
                  /\ baseLedOn' = base
                  /\ ledState' = (base \/ a.warning \/ a.critical)
                  /\ alarmBlink' = d.alarmBlink
                  /\ lastAlarmBlink' = d.lastAlarmBlink
                  /\ editBlinkOn' = d.editBlinkOn
                  /\ lastEditBlink' = d.lastEditBlink
                  /\ senseCount' = senseCount + 1
                  /\ firedAt' = [firedAt EXCEPT !.sense = elapsed]
       ELSE UNCHANGED << senseV, blinkV, firedAt >>
  /\ pc' = "readCmd"
  /\ UNCHANGED << envV, timeV, cmdV, modeV, windowV, editV, bMode, bNight, bTog,
                  ev, sample, pressedAt, ledV, buzV, sendV >>

\* The calls of loop() when nothing arrives on the UART, and when something may.
Rest(Sensors) ==
  \/ NightButtonStep \/ ModeButtonStep \/ TogButtonStep
  \/ LedStep \/ BuzzStep \/ ReportStep \/ SenseStep(Sensors)

Calls(Sensors) == ReadCmdDone \/ Rest(Sensors)

Loop(Sensors) == ReadCharStep \/ Calls(Sensors)

\* ---------------------------------------------------------------- environments
Levels(n, m, t) == [night |-> n, mode |-> m, tog |-> t]
Released == Levels(HIGH, HIGH, HIGH)
AnyLevels == [night : BOOLEAN, mode : BOOLEAN, tog : BOOLEAN]
OnePressed == { Released, Levels(LOW, HIGH, HIGH), Levels(HIGH, LOW, HIGH),
                Levels(HIGH, HIGH, LOW) }
NoRx == { << >> }
Line(s) == Append(s, "\n")
LoopTop == { "readCmd" }
AnyCall == { "readCmd", "nightButton", "modeButton", "togButton", "ledAlarmUpdate",
             "buzzerPassive", "report", "sense" }
Calm == { [t |-> 200, h |-> 500, ldr |-> 500, hour |-> 12] }

\* Bouncing contacts, sampled 35 or 36 ms apart; nothing else happens.
BounceDeltas == { 35, 36 }
TickB == Tick(BounceDeltas, LoopTop, MaxTimeButtons, AnyLevels, FALSE, MaxEdgesButtons, NoRx, 0)
LoopB == Calls(Calm)
NextButtons == TickB \/ LoopB
SpecButtons == Init /\ [][NextButtons]_vars

\* Clean presses of one button at a time, with commands arriving on the UART
\* and the 250 ms cadence running.
EditorRx == { << >>, Line(<<"M", "L">>), Line(<<"S", "N", "I">>) }
EditorDeltas == { 0, 50 }
TickE == Tick(EditorDeltas, LoopTop, MaxTimeEditor, OnePressed, TRUE, MaxEdgesEditor, EditorRx, MaxRxEditor)
LoopE == Loop(Calm)
NextEditor == TickE \/ LoopE
SpecEditor == Init /\ [][NextEditor]_vars

\* Every committed hour (the commands SNI, SND, SI, SD reach each of them), then
\* either one more hour command, or clean presses editing the draft hours.
HourRx == { Line(<<"S", "N", "I">>), Line(<<"S", "N", "D">>), Line(<<"S", "I">>),
            Line(<<"S", "D">>) }
HourDeltas == { 0, 36 }
InitHours == \E h \in 0..23 : InitAt(h, h)
ReceiveH ==
  /\ edges = 0
  /\ Tick({ 0 }, LoopTop, 0, { Released }, TRUE, 0, HourRx, MaxRxHours)
TickH ==
  /\ rxCount = 0
  /\ Tick(HourDeltas, LoopTop, MaxTimeHours, OnePressed, TRUE, MaxEdgesHours, NoRx, 0)
LoopH == Loop(Calm)
NextHours == ReceiveH \/ TickH \/ LoopH
SpecHours == InitHours /\ [][NextHours]_vars

\* Every night window and every hour of the day, read by the 250 ms cadence in
\* daylight.
AnyHour == { [t |-> 200, h |-> 500, ldr |-> 500, hour |-> hr] : hr \in 0..23 }
InitNight == \E start \in 0..23, end \in 0..23 : InitAt(start, end)
TickN == Tick({ MAIN_MS }, LoopTop, MaxTimeNight, { Released }, TRUE, 0, NoRx, 0)
LoopN == Calls(AnyHour)
NextNight == TickN \/ LoopN
SpecNight == InitNight /\ [][NextNight]_vars

\* Readings on and either side of every alarm threshold, two evaluations.
TempSamples == { 110, 119, 120, 150, 159, 160, 200, 260, 261, 300, 301 }
HumSamples == { 150, 199, 200, 250, 299, 300, 500, 650, 651, 750, 751 }
Weather == { [t |-> t, h |-> h, ldr |-> 500, hour |-> 12] :
               t \in TempSamples, h \in HumSamples }
TickA == Tick({ MAIN_MS }, LoopTop, MaxTimeAlarm, { Released }, TRUE, 0, NoRx, 0)
LoopA == Calls(Weather)
NextAlarm == TickA \/ LoopA
SpecAlarm == Init /\ [][NextAlarm]_vars

\* Light on either side of the LDR limit, hours in and out of the window 20-6,
\* and commands that set the mode and the manual LED.
BaseRx == { << >>, Line(<<"M", "L">>), Line(<<"L", "O">>), Line(<<"M", "A">>) }
Daylight == { [t |-> 200, h |-> 500, ldr |-> l, hour |-> hr] :
                l \in { LDR_LIMIT - 1, LDR_LIMIT }, hr \in { 5, 6, 12, 19, 20 } }
TickBase == Tick({ 0, MAIN_MS }, LoopTop, MaxTimeBase, { Released }, TRUE, 0, BaseRx, MaxRxBase)
LoopBase == Loop(Daylight)
NextBase == TickBase \/ LoopBase
SpecBase == Init /\ [][NextBase]_vars

\* MODE and TOGGLE presses, the mode and LED commands, in the dark so that the
\* base output derived in AUTO mode is on.
ModeRx == { << >>, Line(<<"M", "L">>), Line(<<"L", "O">>) }
ModeLevels == { Released, Levels(HIGH, LOW, HIGH), Levels(HIGH, HIGH, LOW) }
ModeDeltas == { 50, MAIN_MS }
Dark == { [t |-> 200, h |-> 500, ldr |-> 10, hour |-> 12] }
TickM == Tick(ModeDeltas, LoopTop, MaxTimeMode, ModeLevels, TRUE, MaxEdgesMode, ModeRx, MaxRxMode)
LoopM == Loop(Dark)
NextMode == TickM \/ LoopM
SpecMode == Init /\ [][NextMode]_vars

\* Readings in each alarm class, in the dark and in the light, with loop()
\* iterations 50 ms or more apart.
SignalDeltas == { 50, TOGGLE_MS }
Classes == { [t |-> t, h |-> 500, ldr |-> l, hour |-> 12] :
               t \in { 110, 150, 200 }, l \in { 10, 500 } }
TickSig == Tick(SignalDeltas, LoopTop, MaxTimeSignal, { Released }, TRUE, 0, NoRx, 0)
LoopSig == Calls(Classes)
NextSignal == TickSig \/ LoopSig
SpecSignal == Init /\ [][NextSignal]_vars

\* Iterations of loop() that take 100 ms or 300 ms each, one after the other,
\* with the report interval left at its initial 1000 ms.
IterationMs == { 100, 300 }
MaxIterationMs == CHOOSE d \in IterationMs : \A e \in IterationMs : e <= d
StartS == TimedReadCmd(IterationMs, MaxTimeSched)
RestS == Rest(Calm)
NextSched == StartS \/ RestS
SpecSched == Init /\ [][NextSched]_vars

\* A reading that oscillates across a warning threshold: the first evaluation
\* reads a value just outside a warning band, and every later one the value on
\* the other side of that threshold, 0.1 away.
AcrossTemp(t) ==
  IF t = TEMP_WARN_LOW - 1 THEN TEMP_WARN_LOW
  ELSE IF t = TEMP_WARN_LOW THEN TEMP_WARN_LOW - 1
  ELSE IF t = TEMP_WARN_HIGH + 1 THEN TEMP_WARN_HIGH
  ELSE IF t = TEMP_WARN_HIGH THEN TEMP_WARN_HIGH + 1
  ELSE t
AcrossHum(h) ==
  IF h = HUM_WARN_LOW - 1 THEN HUM_WARN_LOW
  ELSE IF h = HUM_WARN_LOW THEN HUM_WARN_LOW - 1
  ELSE IF h = HUM_WARN_HIGH + 1 THEN HUM_WARN_HIGH
  ELSE IF h = HUM_WARN_HIGH THEN HUM_WARN_HIGH + 1
  ELSE h
Oscillating ==
  IF senseCount = 0
    THEN { [t |-> t, h |-> 500, ldr |-> 500, hour |-> 12] :
             t \in { TEMP_WARN_LOW - 1, TEMP_WARN_HIGH + 1 } }
         \cup { [t |-> 200, h |-> h, ldr |-> 500, hour |-> 12] :
                  h \in { HUM_WARN_LOW - 1, HUM_WARN_HIGH + 1 } }
    ELSE { [t |-> AcrossTemp(tempC), h |-> AcrossHum(humP), ldr |-> 500, hour |-> 12] }
ChatterDeltas == { 50, MAIN_MS }
TickC == Tick(ChatterDeltas, LoopTop, MaxTimeChatter, { Released }, TRUE, 0, NoRx, 0)
LoopC == Calls(Oscillating)
NextChatter == TickC \/ LoopC
SpecChatter == Init /\ [][NextChatter]_vars

\* Lines whose trimmed text is no command: wrong case, a command with a letter
\* too many or too few, the empty line, and lines longer than the buffer.
Filler == [i \in 1..(CMD_MAX + 1) |-> "x"]
Long(s) == Line(Filler \o s)
UnknownRx == { << >>, Line(<< >>), Line(<<"m", "a">>), Line(<<"M">>),
               Line(<<" ", "M", "A", "X">>), Line(<<"L", "O", "F", "F">>),
               Line(<<"I", "3">>), Line(<<"M", " ", "L">>),
               Line(SubSeq(Filler, 1, CMD_MAX)), Long(<<"I", "5">>) }
CmdDeltas == { 0, MAIN_MS }
TickU == Tick(CmdDeltas, LoopTop, MaxTimeCmd, { Released }, TRUE, 0, UnknownRx, MaxRxUnknown)
LoopU == Loop(Calm)
NextUnknown == TickU \/ LoopU
SpecUnknown == Init /\ [][NextUnknown]_vars

\* Lines of more than 20 characters before the newline.
OverlongRx == { << >>, Long(<< >>), Long(<<"x", "x">>), Long(<<"M", "L">>),
                Long(<<"L", "O">>), Long(<<"S", "N", "I">>), Long(<<"I", "2">>) }
TickO == Tick(CmdDeltas, LoopTop, MaxTimeCmd, { Released }, TRUE, 0, OverlongRx, MaxRxOverlong)
LoopO == Loop(Calm)
NextOverlong == TickO \/ LoopO
SpecOverlong == Init /\ [][NextOverlong]_vars

\* One button at a time, its contact bouncing at will, polled 18 ms or 36 ms after
\* the poll before.
PressDeltas == { 18, DEBOUNCE_MS + 1 }
TickP == Tick(PressDeltas, LoopTop, MaxTimePresses, OnePressed, FALSE, MaxEdgesPresses, NoRx, 0)
LoopP == Calls(Calm)
NextPresses == TickP \/ LoopP
SpecPresses == Init /\ [][NextPresses]_vars

\* Readings in the light at 20 h, the first hour of the initial night window,
\* and a command that moves the window or the mode, up to the first status line.
FeedRx == { << >>, Line(<<"S", "N", "I">>), Line(<<"M", "L">>) }
Evening == { [t |-> 200, h |-> 500, ldr |-> 500, hour |-> 20] }
TickF == Tick(CmdDeltas, LoopTop, MaxTimeFeed, { Released }, TRUE, 0, FeedRx, MaxRxFeed)
LoopF == Loop(Evening)
NextFeed == TickF \/ LoopF
SpecFeed == Init /\ [][NextFeed]_vars

\* The interval commands, a command that is none of them, and button presses.
IntervalRx == { << >>, Line(<<"I">>), Line(<<"I", "2">>), Line(<<"I", "5">>),
                Line(<<"I", "1">>), Line(<<"I", "3">>), Line(<<"M", "L">>) }
IntervalDeltas == { 50, MAIN_MS }
TickI == Tick(IntervalDeltas, LoopTop, MaxTimeInterval, OnePressed, TRUE, MaxEdgesInterval,
              IntervalRx, MaxRxInterval)
LoopI == Loop(Calm)
NextInterval == TickI \/ LoopI
SpecInterval == Init /\ [][NextInterval]_vars

\* Hour commands and editor presses in any order, from the window 23 - 0, whose
\* hours are the two ends of the range. MODE and TOGGLE are pressed only while
\* the editor is open, and a command arrives 50 ms after the previous call of
\* loop() while the pins keep their levels.
RangeDeltas == { 0, 50 }
RangeLevels ==
  IF nightEdit = "NIGHT_EDIT_OFF"
    THEN { lv \in OnePressed : lv.mode = HIGH /\ lv.tog = HIGH }
    ELSE OnePressed
InitRange == InitAt(23, 0)
TickR == Tick(RangeDeltas, LoopTop, MaxTimeRange, RangeLevels, TRUE, MaxEdgesRange, NoRx, 0)
ReceiveR == Tick({ 50 }, LoopTop, MaxTimeRange, { pins }, TRUE, 0, HourRx, MaxRxRange)
LoopR == Loop(Calm)
NextRange == TickR \/ ReceiveR \/ LoopR
SpecRange == InitRange /\ [][NextRange]_vars

\* The counter running up to its maximum and past it: quiet iterations of 250 ms
\* until LeadWrap ms before the wrap, then iterations of 50 or 500 ms with the
\* NIGHT button moving and readings in or out of the warning band, until
\* MaxOverWrap ms after the wrap.
WrapEnd == TimerMod + MaxOverWrap
NearWrap == elapsed >= TimerMod - LeadWrap
WrapDeltas == IF NearWrap THEN { 50, 500 } ELSE { MAIN_MS }
WrapLevels == { lv \in OnePressed : lv.mode = HIGH /\ lv.tog = HIGH }
WrapWeather ==
  IF NearWrap THEN Calm \cup { [t |-> 150, h |-> 500, ldr |-> 500, hour |-> 12] } ELSE Calm
PinsW ==
  /\ NearWrap
  /\ Tick({ 0 }, LoopTop, WrapEnd, WrapLevels, FALSE, MaxEdgesWrap, NoRx, 0)
StartW == TimedReadCmd(WrapDeltas, WrapEnd)
RestW == Rest(WrapWeather)
NextWrap == PinsW \/ StartW \/ RestW
SpecWrap == Init /\ [][NextWrap]_vars

\* ---------------------------------------------------------------- claims
\* The step of loop() that makes the call named c.
Call(c) == pc = c /\ pc' # c

\* One poll of a button: b before and bN after it, ret what checkPress returned,
\* s the sampled level and when it last changed, t the time of the poll.
PressIff(b, bN, ret, s, t) ==
  /\ ret <=> ( /\ t - s.since > DEBOUNCE_MS
               /\ b.stableState = HIGH
               /\ bN.stableState = LOW )
  /\ (b.stableState = LOW /\ bN.stableState = HIGH) => ~ret

\* C1: at every poll of every button, checkPress reports a press exactly when the
\* sampled level has been unchanged for more than 35 ms and the poll promotes the
\* stable level from released to pressed; a promotion to released reports none.
C1_PressIffPromotion ==
  [][/\ Call("nightButton") => PressIff(bNight, bNight', ev'.night, sample'.night, elapsed)
     /\ Call("modeButton") => PressIff(bMode, bMode', ev'.mode, sample'.mode, elapsed)
     /\ Call("togButton") => PressIff(bTog, bTog', ev'.tog, sample'.tog, elapsed)]_vars

\* A second press of the TOGGLE button has just been reported.
C1_Witness ==
  /\ pc = "ledAlarmUpdate" /\ ev.tog
  /\ elapsed >= 4 * (DEBOUNCE_MS + 1)
  /\ bTog.stableState = LOW /\ bTog.lastChangeMs >= 3 * (DEBOUNCE_MS + 1)

\* The stage after s in the cycle Off -> EditingStart -> EditingEnd -> Off.
NextEdit(s) ==
  IF s = "NIGHT_EDIT_OFF" THEN "NIGHT_EDIT_START"
  ELSE IF s = "NIGHT_EDIT_START" THEN "NIGHT_EDIT_END"
  ELSE "NIGHT_EDIT_OFF"

\* C2: a press event of the NIGHT button advances the editor by exactly one stage
\* of the cycle Off -> EditingStart -> EditingEnd -> Off, and no other step (MODE
\* or TOGGLE poll, command character, cadence, passing of time) changes the stage.
C2_EditorCycle ==
  [][IF Call("nightButton") /\ ev'.night
       THEN nightEdit' = NextEdit(nightEdit)
       ELSE nightEdit' = nightEdit]_vars

\* The third NIGHT press has just closed the cycle.
C2_Witness ==
  /\ pc = "modeButton" /\ ev.night
  /\ nightEdit = "NIGHT_EDIT_OFF"
  /\ elapsed >= 6 * (DEBOUNCE_MS + 1)

\* The step of readCmd that reads the newline ending the line whose text is s.
EndOfLine(s) ==
  /\ pc = "readCmd" /\ rxbuf # << >> /\ rxbuf' = Tail(rxbuf)
  /\ Head(rxbuf) = "\n" /\ trim(cmd) = s

\* C3: every hour increment and decrement wraps modulo 24: the MODE / TOGGLE
\* presses on the draft hour being edited, and the commands SNI, SND, SI, SD on
\* the committed hours, turn h into (h + 1) % 24 or (h + 23) % 24.
C3_HoursWrap ==
  [][/\ (Call("modeButton") /\ ev'.mode /\ nightEdit = "NIGHT_EDIT_START")
          => (editStartH' = (editStartH + 23) % 24 /\ editEndH' = editEndH)
     /\ (Call("modeButton") /\ ev'.mode /\ nightEdit = "NIGHT_EDIT_END")
          => (editEndH' = (editEndH + 23) % 24 /\ editStartH' = editStartH)
     /\ (Call("togButton") /\ ev'.tog /\ nightEdit = "NIGHT_EDIT_START")
          => (editStartH' = (editStartH + 1) % 24 /\ editEndH' = editEndH)
     /\ (Call("togButton") /\ ev'.tog /\ nightEdit = "NIGHT_EDIT_END")
          => (editEndH' = (editEndH + 1) % 24 /\ editStartH' = editStartH)
     /\ EndOfLine(<<"S", "N", "I">>) => eveningStart' = (eveningStart + 1) % 24
     /\ EndOfLine(<<"S", "N", "D">>) => eveningStart' = (eveningStart + 23) % 24
     /\ EndOfLine(<<"S", "I">>) => nightEnd' = (nightEnd + 1) % 24
     /\ EndOfLine(<<"S", "D">>) => nightEnd' = (nightEnd + 23) % 24]_vars

\* The draft end hour has just been incremented from 23 to 0.
C3_Witness ==
  /\ pc = "ledAlarmUpdate" /\ ev.tog
  /\ nightEdit = "NIGHT_EDIT_END"
  /\ nightEnd = 23 /\ editEndH = 0

\* The window as the claim words it.
InWindow(start, end, h) ==
  IF start < end THEN start <= h /\ h < end ELSE h >= start \/ h < end

\* C4: for all start, end and hour in 0..23 the night test, as the base LED of an
\* evaluation in AUTO mode and daylight shows it, is start <= hour < end when
\* start < end and (hour >= start or hour < end) otherwise; with 20-6 hour 23 is
\* in and hour 10 out, with 8-18 hour 12 is in and hour 20 out.
C4_NightWindow ==
  (senseCount > 0 /\ mode = "AUTO" /\ ldr >= LDR_LIMIT) =>
     /\ baseLedOn = InWindow(eveningStart, nightEnd, nowHour)
     /\ (eveningStart = 20 /\ nightEnd = 6 /\ nowHour = 23) => baseLedOn
     /\ (eveningStart = 20 /\ nightEnd = 6 /\ nowHour = 10) => ~baseLedOn
     /\ (eveningStart = 8 /\ nightEnd = 18 /\ nowHour = 12) => baseLedOn
     /\ (eveningStart = 8 /\ nightEnd = 18 /\ nowHour = 20) => ~baseLedOn

\* An evaluation found hour 12 inside the window 8-18.
C4_Witness ==
  /\ senseCount > 0 /\ mode = "AUTO" /\ ldr >= LDR_LIMIT
  /\ eveningStart = 8 /\ nightEnd = 18 /\ nowHour = 12 /\ baseLedOn

\* The alarm level the flags stand for, and the level the claim gives readings.
AlarmLevel ==
  IF criticalState THEN "Critical" ELSE IF warningState THEN "Warning" ELSE "Normal"

Outside(x, lo, hi) == x < lo \/ x > hi

LevelOf(t, h) ==
  IF Outside(t, 120, 300) \/ Outside(h, 200, 750) THEN "Critical"
  ELSE IF Outside(t, 160, 260) \/ Outside(h, 300, 650) THEN "Warning"
  ELSE "Normal"

\* C5: after every evaluation the alarm level is Critical if the temperature is
\* outside [12.0, 30.0] or the humidity outside [20.0, 75.0], else Warning if the
\* temperature is outside [16.0, 26.0] or the humidity outside [30.0, 65.0], else
\* Normal; 11.0 C is Critical whatever the humidity, and with the humidity in its
\* warning band 15.0 C is Warning and 20.0 C Normal.
C5_AlarmLevel ==
  senseCount > 0 =>
     /\ AlarmLevel = LevelOf(tempC, humP)
     /\ (tempC < 120 \/ tempC > 300) => AlarmLevel = "Critical"
     /\ tempC = 110 => AlarmLevel = "Critical"
     /\ (tempC = 150 /\ humP >= 300 /\ humP <= 650) => AlarmLevel = "Warning"
     /\ (tempC = 200 /\ humP >= 300 /\ humP <= 650) => AlarmLevel = "Normal"

\* A second evaluation read 12.0 C, on the critical bound, at 50 % humidity.
C5_Witness ==
  /\ senseCount = 2 /\ tempC = 120 /\ humP = 500
  /\ warningState /\ ~criticalState

\* C8: an evaluation leaves the base output equal to (dark or night window) in
\* AUTO mode, whatever the manual LED request is, and equal to the manual LED
\* request in MANUAL mode, whatever the light and the hour are.
C8_BaseOutput ==
  [][senseCount' = senseCount + 1 =>
       baseLedOn' = IF mode = "AUTO"
                      THEN (ldr' < LDR_LIMIT \/ InWindow(eveningStart, nightEnd, nowHour'))
                      ELSE manualLED]_vars

\* An evaluation in MANUAL mode, in the dark and inside the night window, left
\* the base output off.
C8_Witness ==
  /\ senseCount > 0 /\ pc = "readCmd" /\ lastReadMain = millis
  /\ mode = "MANUAL" /\ ~manualLED /\ ldr < LDR_LIMIT /\ nowHour = 20
  /\ ~baseLedOn

\* C6: every step that takes the mode from AUTO to MANUAL, a MODE press outside
\* editing or the command ML, leaves the manual LED request false, whatever the
\* request and the base output were before the step.
C6_ManualResets ==
  [][(mode = "AUTO" /\ mode' = "MANUAL") => manualLED' = FALSE]_vars

\* A MODE press has just entered MANUAL after LO was received in AUTO mode and an
\* evaluation in the dark had turned the base output on.
C6_Witness ==
  /\ pc = "togButton" /\ ev.mode
  /\ mode = "MANUAL" /\ ~manualLED
  /\ baseLedOn /\ senseCount > 0
  /\ rxCount > 0 /\ rxbuf = << >> /\ sample.tog.level = HIGH /\ edges = 1

\* What one pass of a cadence does: it fires exactly when ms - last >= interval,
\* counting one firing and setting last to ms, and is otherwise without effect.
Fires(last, lastN, count, countN, interval) ==
  IF USub(millis, last) >= interval
    THEN lastN = millis /\ countN = count + 1
    ELSE lastN = last /\ countN = count

\* C7 as stated: at the end of an iteration of loop() the number of status lines
\* is within 1 of T/R and the number of evaluations within 1 of T/250, T the time
\* elapsed.
C7_CountsWithinOne ==
  pc = "readCmd" =>
     /\ sendCount * intervalMs - elapsed <= intervalMs
     /\ elapsed - sendCount * intervalMs <= intervalMs
     /\ senseCount * MAIN_MS - elapsed <= MAIN_MS
     /\ elapsed - senseCount * MAIN_MS <= MAIN_MS

\* C7: with a constant report interval R and iterations of loop() at most G ms
\* apart, the number c of firings of a cadence of interval I (R for the status
\* line, 250 for the evaluation) in elapsed time T satisfies
\* c * I <= T < (c + 1) * (I + G), so that c never exceeds T/I but falls short of
\* it by more than 1 when firings are late; each cadence fires exactly when
\* now - last_fire >= interval and then sets last_fire to now, and neither
\* cadence changes the other's last_fire or count.
C7_Cadences ==
  /\ [](/\ sendCount * intervalMs <= elapsed
        /\ elapsed < (sendCount + 1) * (intervalMs + MaxIterationMs)
        /\ senseCount * MAIN_MS <= elapsed
        /\ elapsed < (senseCount + 1) * (MAIN_MS + MaxIterationMs))
  /\ [][/\ Call("report") =>
             /\ Fires(lastReadSend, lastReadSend', sendCount, sendCount', intervalMs)
             /\ lastReadMain' = lastReadMain /\ senseCount' = senseCount
        /\ Call("sense") =>
             /\ Fires(lastReadMain, lastReadMain', senseCount, senseCount', MAIN_MS)
             /\ lastReadSend' = lastReadSend /\ sendCount' = sendCount
        /\ (~Call("report") /\ ~Call("sense")) =>
             UNCHANGED << lastReadSend, sendCount, lastReadMain, senseCount >>]_vars

\* Both cadences have fired in one iteration, the status line for the second
\* time, after evaluations that fired late.
C7_Witness ==
  /\ pc = "readCmd" /\ sendCount = 2 /\ lastReadSend = millis
  /\ lastReadMain = millis /\ senseCount * MAIN_MS < elapsed

\* The alarm levels the flags stand for.
Critical == criticalState
Warning == warningState /\ ~criticalState
Normal == ~warningState /\ ~criticalState

\* C9: on every pass of loop(), if the alarm level is Critical the LED is driven
\* on and the buzzer sounds the continuous tone, whatever the base output and the
\* warning flag are; if it is Normal the LED pin equals the base output and the
\* buzzer is silent.
C9_AlarmPriority ==
  [][/\ (Call("ledAlarmUpdate") /\ Critical) => ledPin' = HIGH
     /\ (Call("buzzerPassive") /\ Critical) => buzzTone' = TONE_CRIT
     /\ (Call("ledAlarmUpdate") /\ Normal) => ledPin' = baseLedOn
     /\ (Call("buzzerPassive") /\ Normal) => buzzTone' = NO_TONE]_vars

\* A pass at Critical level with the base output off has lit the LED and
\* sounded the tone, after an earlier evaluation.
C9_Witness ==
  /\ pc = "report" /\ Critical /\ ~baseLedOn /\ senseCount >= 2
  /\ ledPin = HIGH /\ buzzTone = TONE_CRIT

\* C10: at Warning level a pass toggles the phase of the LED, and of the buzzer,
\* exactly when at least 200 ms have passed since that device's previous toggle,
\* the LED pin showing the blink phase whatever the base output is and the
\* buzzer sounding 1200 Hz in its on phase; no pass at Critical or Normal level,
\* and no other step, toggles either phase.
C10_WarningToggles ==
  [][/\ (Call("ledAlarmUpdate") /\ Warning) =>
          /\ (blinkOn' # blinkOn) <=> (USub(millis, ledLastToggle) >= 200)
          /\ ledLastToggle' = IF blinkOn' # blinkOn THEN millis ELSE ledLastToggle
          /\ ledPin' = blinkOn'
     /\ (Call("buzzerPassive") /\ Warning) =>
          /\ (beepOn' # beepOn) <=> (USub(millis, buzLastToggle) >= 200)
          /\ buzLastToggle' = IF beepOn' # beepOn THEN millis ELSE buzLastToggle
          /\ (beepOn' # beepOn) => buzzTone' = IF beepOn' THEN TONE_WARN ELSE NO_TONE
     /\ ~(Call("ledAlarmUpdate") /\ Warning) => blinkOn' = blinkOn
     /\ ~(Call("buzzerPassive") /\ Warning) => beepOn' = beepOn]_vars

\* At Warning level with the base output on, both devices have just toggled
\* back to their off phase, 200 ms or more after they toggled on.
C10_Witness ==
  /\ pc = "report" /\ Warning /\ baseLedOn
  /\ ~blinkOn /\ ledPin = LOW /\ ledLastToggle = millis
  /\ ~beepOn /\ buzzTone = NO_TONE /\ buzLastToggle = millis
  /\ elapsed >= MAIN_MS + 2 * TOGGLE_MS

\* The alarm level of the readings last taken.
ReadLevel == LevelOf(tempC, humP)

\* C11: the alarm is never latched: every evaluation leaves the level of the
\* readings it took, whatever the level was before, and on every pass of loop()
\* after it the LED equals the base output and the buzzer is silent when those
\* readings are Normal, and the LED shows the blink phase when they are Warning.
C11_NoLatch ==
  [][/\ senseCount' = senseCount + 1 => AlarmLevel' = LevelOf(tempC', humP')
     /\ (Call("ledAlarmUpdate") /\ senseCount > 0 /\ ReadLevel = "Normal")
          => ledPin' = baseLedOn
     /\ (Call("buzzerPassive") /\ senseCount > 0 /\ ReadLevel = "Normal")
          => buzzTone' = NO_TONE
     /\ (Call("ledAlarmUpdate") /\ senseCount > 0 /\ ReadLevel = "Warning")
          => ledPin' = blinkOn']_vars

\* The readings are back to Normal after a Critical evaluation: the LED already
\* equals the base output, off, and the buzzer, still sounding the critical
\* tone, is polled next.
C11_Witness ==
  /\ pc = "buzzerPassive" /\ senseCount >= 2 /\ ReadLevel = "Normal"
  /\ Normal /\ ~baseLedOn /\ ledPin = LOW /\ buzzTone = TONE_CRIT

\* C12: the evaluation applies hysteresis: while a reading oscillates between
\* two values 0.1 either side of a warning threshold on consecutive evaluations,
\* the alarm level does not alternate: from the third evaluation on, an
\* evaluation leaves the level the one before it left.
C12_Hysteresis ==
  [][(senseCount' = senseCount + 1 /\ senseCount >= 2) => AlarmLevel' = AlarmLevel]_vars

\* A press event of the NIGHT button, and a poll of MODE or TOGGLE.
NightPress == Call("nightButton") /\ ev'.night
EditPoll == Call("modeButton") \/ Call("togButton")

\* C13: in an edit session driven by the buttons, the press Off -> EditingStart
\* sets the draft to the committed night window and leaves the window alone; the
\* press EditingStart -> EditingEnd changes neither; MODE and TOGGLE polls change
\* at most the draft start hour in EditingStart and the draft end hour in
\* EditingEnd, never the window; the press EditingEnd -> Off sets the window to
\* exactly the draft.
C13_DraftAndCommit ==
  [][/\ (NightPress /\ nightEdit = "NIGHT_EDIT_OFF") =>
          /\ editStartH' = eveningStart /\ editEndH' = nightEnd
          /\ UNCHANGED windowV
     /\ (NightPress /\ nightEdit = "NIGHT_EDIT_START") =>
          UNCHANGED << windowV, editStartH, editEndH >>
     /\ (NightPress /\ nightEdit = "NIGHT_EDIT_END") =>
          /\ eveningStart' = editStartH /\ nightEnd' = editEndH
          /\ UNCHANGED << editStartH, editEndH >>
     /\ (EditPoll /\ nightEdit = "NIGHT_EDIT_START") =>
          UNCHANGED << windowV, editEndH >>
     /\ (EditPoll /\ nightEdit = "NIGHT_EDIT_END") =>
          UNCHANGED << windowV, editStartH >>]_vars

\* A session entered after SNI had moved the window's start to 21 has raised
\* the draft start by one and committed 22 - 6.
C13_Witness ==
  /\ pc = "modeButton" /\ ev.night /\ nightEdit = "NIGHT_EDIT_OFF"
  /\ rxCount = 1 /\ eveningStart = 22 /\ nightEnd = 6
  /\ editStartH = 22 /\ editEndH = 6

\* The editor is in EditingStart or EditingEnd.
Editing == nightEdit # "NIGHT_EDIT_OFF"

\* The draft hours after the hour being edited has moved by d.
Edited(d) ==
  IF nightEdit = "NIGHT_EDIT_START"
    THEN editStartH' = (editStartH + d) % 24 /\ editEndH' = editEndH
    ELSE editEndH' = (editEndH + d) % 24 /\ editStartH' = editStartH

\* C14: while the editor is in EditingStart or EditingEnd no poll of MODE or
\* TOGGLE changes the mode or the manual LED request; a press event of MODE only
\* decrements, and one of TOGGLE only increments, the hour being edited; and a
\* press event applied to the mode or the manual LED, the editor being Off,
\* edits no hour.
C14_EditorOwnsButtons ==
  [][/\ (EditPoll /\ Editing) => UNCHANGED modeV
     /\ (Call("modeButton") /\ Editing /\ ev'.mode) => Edited(23)
     /\ (Call("togButton") /\ Editing /\ ev'.tog) => Edited(1)
     /\ (EditPoll /\ ~Editing) => UNCHANGED << editStartH, editEndH >>]_vars

\* In MANUAL mode, set by ML, a MODE press in EditingStart has lowered the draft
\* start hour to 19 and left the mode alone.
C14_Witness ==
  /\ pc = "togButton" /\ ev.mode /\ nightEdit = "NIGHT_EDIT_START"
  /\ mode = "MANUAL" /\ editStartH = 19 /\ eveningStart = 20

\* The step of readCmd that reads a character, and the one that reads a newline.
ReadsChar == pc = "readCmd" /\ rxbuf # << >> /\ rxbuf' = Tail(rxbuf)
ReadsNewline == ReadsChar /\ Head(rxbuf) = "\n"

\* C15: when every line received has a trimmed text that is none of the
\* commands, the newline of a line changes none of the mode, the manual LED
\* request, the night window, the report interval and the editor state, and
\* leaves the command buffer empty.
C15_UnknownIsNoOp ==
  [][ReadsNewline => (UNCHANGED << modeV, windowV, intervalMs, editV >> /\ cmd' = << >>)]_vars

\* C16: when every line received has more than 20 characters before its
\* newline, no character read changes the mode, the manual LED request, the night
\* window or the report interval, and the command buffer never holds more than 20
\* characters.
C16_OverlongDiscarded ==
  [][ReadsChar => (UNCHANGED << modeV, windowV, intervalMs >> /\ Len(cmd') <= CMD_MAX)]_vars

\* A press event at time t comes more than the debounce window after the press
\* event before it, at time p, if there was one.
Apart(ret, p, t) == (ret /\ p >= 0) => t - p > DEBOUNCE_MS

\* C17: for every button, two successive press events reported by checkPress are
\* more than 35 ms apart, whatever the raw levels and the spacing of the polls.
C17_PressesApart ==
  [][/\ Call("nightButton") => Apart(ev'.night, pressedAt.night, elapsed)
     /\ Call("modeButton") => Apart(ev'.mode, pressedAt.mode, elapsed)
     /\ Call("togButton") => Apart(ev'.tog, pressedAt.tog, elapsed)]_vars

\* The NIGHT button, which has reported a press before, has been released and
\* pressed again for more than 35 ms: its poll, next, reports a second press.
C17_Witness ==
  /\ pc = "nightButton" /\ pressedAt.night >= 0
  /\ pins.night = LOW /\ bNight.lastReading = LOW /\ bNight.stableState = HIGH
  /\ USub(millis, bNight.lastChangeMs) > DEBOUNCE_MS

\* The values the status line reports besides the readings.
feedV == << mode, ledState, buzzState, eveningStart, nightEnd, intervalMs >>

\* The LED flag an evaluation of the readings last taken gives in AUTO mode with
\* the night window start - end, no alarm being raised.
AutoLed(start, end) == ldr < LDR_LIMIT \/ InWindow(start, end, nowHour)

\* C18: the values of the status feed change only in an evaluation, so that a
\* status line reports a mode, an LED flag and a night window of one evaluation:
\* a line sent after an evaluation that reports AUTO mode while no alarm is
\* raised reports the LED flag that the readings give for the night window it
\* reports.
C18_FeedSnapshot ==
  [][/\ senseCount' = senseCount => UNCHANGED feedV
     /\ (sendCount' = sendCount + 1 /\ senseCount > 0
           /\ uartLine'.mode = "AUTO" /\ ~uartLine'.buzz)
          => uartLine'.led = AutoLed(uartLine'.nst, uartLine'.nend)]_vars

\* The call of loop() that follows the call c.
After(c) ==
  CASE c = "readCmd" -> "nightButton"
    [] c = "nightButton" -> "modeButton"
    [] c = "modeButton" -> "togButton"
    [] c = "togButton" -> "ledAlarmUpdate"
    [] c = "ledAlarmUpdate" -> "buzzerPassive"
    [] c = "buzzerPassive" -> "report"
    [] c = "report" -> "sense"
    [] c = "sense" -> "readCmd"

\* C19: in every iteration of loop() the command poll, the three button polls,
\* the LED update and the buzzer update run once each, in this order, before the
\* report and the evaluation, whether or not either is due: every call is
\* followed by the next one of the list, each button is read in its own poll and
\* only there, and a cadence fires only in its own place at the end.
C19_FastWorkFirst ==
  [][/\ pc' # pc => pc' = After(pc)
     /\ Call("nightButton") => bNight'.lastReading = pins.night
     /\ Call("modeButton") => bMode'.lastReading = pins.mode
     /\ Call("togButton") => bTog'.lastReading = pins.tog
     /\ ~Call("nightButton") => bNight' = bNight
     /\ ~Call("modeButton") => bMode' = bMode
     /\ ~Call("togButton") => bTog' = bTog
     /\ sendCount' # sendCount => Call("report")
     /\ senseCount' # senseCount => Call("sense")]_vars

\* The fast work of an iteration is done, with the buttons polled at this very
\* time, and both the report and the evaluation are due.
C19_Witness ==
  /\ pc = "report" /\ sendCount >= 1 /\ elapsed > 0
  /\ USub(millis, lastReadSend) >= intervalMs
  /\ USub(millis, lastReadMain) >= MAIN_MS
  /\ bNight.stableState = HIGH /\ bMode.stableState = HIGH /\ bTog.stableState = HIGH

\* The report intervals that can be selected, and the commands that select one.
Intervals == { 1000, 2500, 5000, 10000 }
IntervalCmds == { <<"I">>, <<"I", "2">>, <<"I", "5">>, <<"I", "1">> }

\* C20: the report interval is always one of 1000, 2500, 5000 and 10000 ms; the
\* commands I, I2, I5 and I1 set it to 1000, 2500, 5000 and 10000, and no other
\* step (another command, a button poll, a cadence) changes it.
C20_Intervals ==
  /\ [](intervalMs \in Intervals)
  /\ [][/\ EndOfLine(<<"I">>) => intervalMs' = 1000
        /\ EndOfLine(<<"I", "2">>) => intervalMs' = 2500
        /\ EndOfLine(<<"I", "5">>) => intervalMs' = 5000
        /\ EndOfLine(<<"I", "1">>) => intervalMs' = 10000
        /\ intervalMs' # intervalMs => (ReadsNewline /\ trim(cmd) \in IntervalCmds)]_vars

\* I1 has set the interval to 10000 after another command, and the button polls
\* of this iteration report a press.
C20_Witness ==
  /\ intervalMs = 10000 /\ rxCount = 2 /\ rxbuf = << >> /\ cmd = << >>
  /\ (ev.night \/ ev.mode \/ ev.tog)

Hours == 0..23

\* C21: in every reachable state the committed start and end hours of the night
\* window and both draft hours lie in 0..23, whatever the order of the editor's
\* button presses and of the commands SNI, SND, SI and SD.
C21_HoursInRange ==
  /\ eveningStart \in Hours /\ nightEnd \in Hours
  /\ editStartH \in Hours /\ editEndH \in Hours

\* From the window 23 - 0, SNI arrived during the edit session and wrapped the
\* committed start hour to 0, and a TOGGLE press has just wrapped the draft
\* start hour from 23 to 0.
C21_Witness ==
  /\ pc = "ledAlarmUpdate" /\ ev.tog /\ nightEdit = "NIGHT_EDIT_START"
  /\ rxCount = 1 /\ rxbuf = << >>
  /\ editStartH = 0 /\ eveningStart = 0 /\ nightEnd = 0

\* A press event of MODE or TOGGLE is being handled.
EditPress == (Call("modeButton") /\ ev'.mode) \/ (Call("togButton") /\ ev'.tog)

\* The draft hours are left as they are.
DraftKept == UNCHANGED << editStartH, editEndH >>

\* C22: while the editor is in EditingStart or EditingEnd, each of SNI, SND, SI
\* and SD changes the committed window at once, when its line ends, and leaves
\* the draft alone; the draft, a copy of the window made at edit entry, changes
\* during the session only by the press events of MODE and TOGGLE; and the press
\* EditingEnd -> Off sets the window to the draft, so that the window after the
\* commit is the window at edit entry moved by the button presses alone, whatever
\* the commands had made of it.
C22_SerialLostAtCommit ==
  [][/\ (Editing /\ EndOfLine(<<"S", "N", "I">>)) =>
          /\ eveningStart' = (eveningStart + 1) % 24 /\ nightEnd' = nightEnd
          /\ DraftKept
     /\ (Editing /\ EndOfLine(<<"S", "N", "D">>)) =>
          /\ eveningStart' = (eveningStart + 23) % 24 /\ nightEnd' = nightEnd
          /\ DraftKept
     /\ (Editing /\ EndOfLine(<<"S", "I">>)) =>
          /\ nightEnd' = (nightEnd + 1) % 24 /\ eveningStart' = eveningStart
          /\ DraftKept
     /\ (Editing /\ EndOfLine(<<"S", "D">>)) =>
          /\ nightEnd' = (nightEnd + 23) % 24 /\ eveningStart' = eveningStart
          /\ DraftKept
     /\ (NightPress /\ ~Editing) =>
          (editStartH' = eveningStart /\ editEndH' = nightEnd)
     /\ (Editing /\ ~EditPress) => DraftKept
     /\ (Editing /\ EditPress) => (Edited(1) \/ Edited(23))
     /\ (NightPress /\ nightEdit = "NIGHT_EDIT_END") =>
          (eveningStart' = editStartH /\ nightEnd' = editEndH)]_vars

\* From the window 23 - 0, an hour command was received and run during an edit
\* session without MODE or TOGGLE presses, and the commit has just put the
\* window back to 23 - 0.
C22_Witness ==
  /\ pc = "modeButton" /\ ev.night /\ nightEdit = "NIGHT_EDIT_OFF"
  /\ rxCount = 1 /\ rxbuf = << >> /\ cmd = << >>
  /\ pressedAt.mode = -1 /\ pressedAt.tog = -1
  /\ eveningStart = 23 /\ nightEnd = 0

\* Whether a test of more than (strict) or at least interval ms, whose last was
\* at the true time last, makes at the true time t the decision fired, as long
\* as less than a full turn of the counter has passed since last.
SameAsTrue(fired, t, last, interval, strict) ==
  (t - last < TimerMod) =>
     (fired <=> IF strict THEN t - last > interval ELSE t - last >= interval)

\* One poll of a button: its stable level changes exactly when the reading
\* differs from it and has been the same for more than 35 ms of true time.
SamePromotion(b, bN, reading, s, t) ==
  (reading # b.stableState) =>
     SameAsTrue(bN.stableState # b.stableState, t, s.since, DEBOUNCE_MS, TRUE)

\* C23: the report cadence, the 250 ms cadence, the debounce window and the
\* 200 ms toggles of the LED and of the buzzer under a warning decide by the
\* unsigned difference of the counter, so each fires, promotes or toggles exactly
\* when the true time since its last has reached the interval (passed it, for the
\* debounce), before, across and after the wrap of the counter, provided that
\* true time is below a full turn of the counter.
C23_WrapSafe ==
  [][/\ Call("report") =>
          SameAsTrue(sendCount' # sendCount, elapsed, firedAt.send, intervalMs, FALSE)
     /\ Call("sense") =>
          SameAsTrue(senseCount' # senseCount, elapsed, firedAt.sense, MAIN_MS, FALSE)
     /\ (Call("ledAlarmUpdate") /\ warningState /\ ~criticalState) =>
          SameAsTrue(blinkOn' # blinkOn, elapsed, firedAt.led, TOGGLE_MS, FALSE)
     /\ (Call("buzzerPassive") /\ warningState /\ ~criticalState) =>
          SameAsTrue(beepOn' # beepOn, elapsed, firedAt.buzz, TOGGLE_MS, FALSE)
     /\ Call("nightButton") =>
          SamePromotion(bNight, bNight', pins.night, sample'.night, elapsed)
     /\ Call("modeButton") =>
          SamePromotion(bMode, bMode', pins.mode, sample'.mode, elapsed)
     /\ Call("togButton") =>
          SamePromotion(bTog, bTog', pins.tog, sample'.tog, elapsed)]_vars

\* After the wrap, at the start of handleButtons: the NIGHT reading changed, the
\* last report and evaluation were made and the LED and the buzzer last toggled
\* before the wrap, so that each stamp is above the counter, and the promotion,
\* both toggles, the report and the evaluation are all due in this iteration.
C23_Witness ==
  /\ pc = "nightButton" /\ elapsed >= TimerMod
  /\ pins.night = LOW /\ bNight.lastReading = LOW /\ bNight.stableState = HIGH
  /\ bNight.lastChangeMs > millis /\ elapsed - sample.night.since > DEBOUNCE_MS
  /\ warningState /\ ~criticalState
  /\ ledLastToggle > millis /\ firedAt.led > 0 /\ elapsed - firedAt.led >= TOGGLE_MS
  /\ buzLastToggle > millis /\ firedAt.buzz > 0 /\ elapsed - firedAt.buzz >= TOGGLE_MS
  /\ lastReadSend > millis /\ elapsed - firedAt.send >= intervalMs
  /\ lastReadMain > millis /\ elapsed - firedAt.sense >= MAIN_MS
====
